---- MODULE Spec2Model ----
(***************************************************************************)
(* Activation key editor (beshu-tech/ak-tools): token codec, signer,       *)
(* verifier and the editor session state machine.                          *)
(*                                                                         *)
(* Conventions.  "Maybe" values (undefined / null in the source) are       *)
(* sequences of length 0 or 1.  A JSON object is the sequence of its       *)
(* <<name, value>> members in insertion order, which is what               *)
(* JSON.stringify prints.  Instants are integers in milliseconds, claims   *)
(* are integers in seconds.                                                *)
(***************************************************************************)
EXTENDS Integers, Sequences, FiniteSets, Bags, TLC

\* ---------------------------------------------------------------- bounds
MaxTicks == 1
MaxPending == 2
MaxEvents == 4
MaxStoreOps == 2

\* ------------------------------------------------------ program constants
MsPerSecond == 1000
SUPPORTED_ALGORITHMS == {"ES512"}

\* --------------------------------------------------------- JSON objects
Has(o, n) == \E i \in 1..Len(o) : o[i][1] = n
Get(o, n) == o[CHOOSE i \in 1..Len(o) : o[i][1] = n][2]
\* the assignment  o[n] = v  of a JavaScript object: an existing member
\* keeps its position, a new one is appended
SetMember(o, n, v) ==
  IF Has(o, n)
    THEN [i \in 1..Len(o) |-> IF o[i][1] = n THEN <<n, v>> ELSE o[i]]
    ELSE Append(o, <<n, v>>)

\* Texts of the payload editor: a JSON object text (pretty = printed with
\* two-space indentation, as JSON.stringify(x, null, 2) prints it) or a
\* text that is not JSON.
BadText == [kind |-> "bad", obj |-> <<>>, pretty |-> FALSE]
JsonText(o, p) == [kind |-> "json", obj |-> o, pretty |-> (p \/ o = <<>>)]
JSONstringify(o) == JsonText(o, TRUE)
JSONparseThrows(text) == text.kind # "json"
JSONparse(text) == text.obj
EmptyObjectText == JSONstringify(<<>>)

\* ---------------------------------------------------------------- tokens
\* A compact token: header alg, payload claims, and the signature, which is
\* described by the key material that made it and whether it still covers
\* header and payload (intact).
EmptyString == [kind |-> "empty", alg |-> "", payload |-> <<>>, signedBy |-> 0, intact |-> FALSE]
MalformedToken == [kind |-> "malformed", alg |-> "", payload |-> <<>>, signedBy |-> 0, intact |-> FALSE]
Jwt(a, p, k, ok) == [kind |-> "jwt", alg |-> a, payload |-> p, signedBy |-> k, intact |-> ok]

Floor(ms) == ms \div MsPerSecond

\* ------------------------------------------------------------- key pairs
Pem(h, m) == [header |-> h, material |-> m]
KeyPairRec(i, priv, pub) == [id |-> i, privateKey |-> priv, publicKey |-> pub]
generateEC512KeyPair(n, i) ==
  KeyPairRec(i, Pem("PRIVATE KEY", n), Pem("PUBLIC KEY", n))

checkPrivateKeyThrows(key) == key.header = "EC PRIVATE KEY"
Sec1Message == "Only PKCS8 format private keys are supported. Please convert your SEC1 key to PKCS8 format."

\* ----------------------------------------------------------------- codec
getJwtMetadata(token) ==
  IF token.kind # "jwt" THEN <<>>
  ELSE LET p == token.payload IN
    << [algorithm |-> IF token.alg # "" THEN <<token.alg>> ELSE <<>>,
        issuedAt  |-> IF Has(p, "iat") /\ Get(p, "iat") # 0
                        THEN <<Get(p, "iat") * MsPerSecond>> ELSE <<>>,
        expiresAt |-> IF Has(p, "exp") /\ Get(p, "exp") # 0
                        THEN <<Get(p, "exp") * MsPerSecond>> ELSE <<>>] >>

headerOf(token) == IF token.alg # "" THEN << <<"alg", token.alg>> >> ELSE <<>>

\* a decode that hands on the text it could not decode
decodeJWTUnguarded(token) ==
  IF token.kind # "jwt" THEN BadText
  ELSE JSONstringify(<< <<"header", headerOf(token)>>, <<"payload", token.payload>> >>)

decodeJWT(token) ==
  IF token.kind # "jwt" THEN EmptyObjectText
  ELSE JSONstringify(<< <<"header", headerOf(token)>>, <<"payload", token.payload>> >>)

\* JSON.parse(decoded).payload || {}  printed again
payloadOnlyOf(decoded) ==
  IF JSONparseThrows(decoded) THEN EmptyObjectText
  ELSE IF Has(JSONparse(decoded), "payload")
         THEN JSONstringify(Get(JSONparse(decoded), "payload"))
         ELSE JSONstringify(<<>>)

\* ---------------------------------------------------------------- signer
SignOk(t) == [ok |-> TRUE, token |-> t, error |-> ""]
SignErr(e) == [ok |-> FALSE, token |-> EmptyString, error |-> e]

setIssuedAt(p, t) == SetMember(p, "iat", Floor(t))
setExpirationTime(p, expiry) == SetMember(p, "exp", Floor(expiry))

\* signJWT(payload, algorithm, keyPair, expiryDate) run at instant t
signJWT(payload, algorithm, keyPair, expiryDate, t) ==
  IF keyPair = <<>> THEN SignErr("Private key is required")
  ELSE IF checkPrivateKeyThrows(keyPair[1].privateKey) THEN SignErr(Sec1Message)
  ELSE IF keyPair[1].privateKey.header # "PRIVATE KEY" THEN SignErr("importPKCS8 failed")
  ELSE IF algorithm \notin SUPPORTED_ALGORITHMS THEN SignErr("sign failed")
  ELSE SignOk(Jwt(algorithm,
                  setExpirationTime(setIssuedAt(payload, t), expiryDate),
                  keyPair[1].privateKey.material, TRUE))

\* -------------------------------------------------------------- verifier
Valid == [isValid |-> TRUE, error |-> <<>>]
\* a failure result that loses its message
InvalidNoMessage(msg) == [isValid |-> FALSE, error |-> <<>>]
Invalid(msg) == [isValid |-> FALSE, error |-> <<msg>>]
NoKeyMessage == "No matching key found in your list of keys"
ExpiredMessage == "\"exp\" claim timestamp check failed"
SignatureFailedMessage == "signature verification failed"

\* jose.jwtVerify(jwt, publicKey) at instant t: the signature first, then
\* the registered claims of the payload
jwtVerify(jwt, publicKey, t) ==
  IF ~(jwt.intact /\ jwt.signedBy = publicKey.material)
    THEN Invalid(SignatureFailedMessage)
  ELSE IF Has(jwt.payload, "exp") /\ Get(jwt.payload, "exp") <= Floor(t)
    THEN Invalid(ExpiredMessage)
  ELSE Valid

validateJWTSignature(jwt, keyPair, t) ==
  IF keyPair = <<>> THEN Invalid(NoKeyMessage)
  ELSE IF jwt.kind # "jwt" THEN Invalid("Unexpected token")
  ELSE IF checkPrivateKeyThrows(keyPair[1].publicKey) THEN Invalid(Sec1Message)
  ELSE IF keyPair[1].publicKey.header # "PUBLIC KEY" \/ jwt.alg \notin SUPPORTED_ALGORITHMS
    THEN Invalid("importSPKI failed")
  ELSE jwtVerify(jwt, keyPair[1].publicKey, t)

\* ------------------------------------------------------- stored key pairs
\* The key pair collection the session reads (use-key-pairs over the
\* persisted collection): a generated pair and a pair whose private key is
\* in SEC1 form.
StoredKeyPairs ==
  << generateEC512KeyPair(1, "k1"),
     KeyPairRec("k2", Pem("EC PRIVATE KEY", 2), Pem("PUBLIC KEY", 2)) >>

getKeyPairById(items, id) ==
  IF \E i \in 1..Len(items) : items[i].id = id
    THEN << items[CHOOSE i \in 1..Len(items) : items[i].id = id] >>
    ELSE <<>>

\* ---------------------------------------------------------------- inputs
\* the clock starts at second 1 and advances by a second and a half
StartMs == MsPerSecond
TickMs == MsPerSecond + MsPerSecond \div 2
MaxNow == StartMs + MaxTicks * TickMs

TokenA == Jwt("ES512", << <<"lic", 7>>, <<"iat", 1>>, <<"exp", 9>> >>, 1, TRUE)
TokenB == Jwt("ES512", << <<"lic", 7>>, <<"exp", 1>> >>, 1, TRUE)
\* a token whose header names an algorithm outside SUPPORTED_ALGORITHMS
TokenOtherAlg == Jwt("RS256", << <<"lic", 7>> >>, 1, TRUE)
InputTokens == {EmptyString, MalformedToken, TokenA, TokenB, TokenOtherAlg}
EditedText == JsonText(<< <<"lic", 7>>, <<"exp", 2>>, <<"iat", 5>> >>, FALSE)
EditorTexts == {BadText, EditedText}
PickDates == {<<>>, <<StartMs + TickMs>>}

VARIABLES
  state,                   \* EditorState of the reducer
  originalEditorValueRef,  \* baseline of the dirty flag
  keyPairs,                \* items of useKeyPairs
  now,                     \* the clock, in milliseconds
  microQ,                  \* continuations waiting in the microtask queue, FIFO
  inflight,                \* bag of asynchronous crypto operations not yet resolved
  toast,                   \* the errors shown to the operator, oldest first
  emptyInputLast,          \* history: setInput("") was the last input or sign event
  expiryPicked,            \* history: state.expiryDate was set by the operator's setExpiry
  issuedPicked,            \* history: state.issuedDate was set by the operator's setIssued
  events,                  \* number of operator events so far (bounded by MaxEvents)
  codec,                   \* the sign / verify round of SpecCodec
  store,                   \* the persisted collection of SpecStore: storage and instances
  loadedText,              \* history: payload text captured by the latest completed load
  crud,                    \* the add / edit form state of SpecCrud
  tpl                      \* templates, source template, pending marker and save form of SpecTemplates

vars == <<state, originalEditorValueRef, keyPairs, now, microQ, inflight, toast,
          emptyInputLast, expiryPicked, issuedPicked, events, codec, store, loadedText, crud, tpl>>

\* ---------------------------------------------------------------- toasts
InvalidJsonMessage == "Invalid JSON payload"
SignFailedMessage == "Failed to sign activation key"
showError(shown, message) == Append(shown, message)

\* ------------------------------------------------------- editor reducer
initialState ==
  [inputValue |-> EmptyString, jwt |-> EmptyString, editorValue |-> EmptyObjectText,
   algorithm |-> "ES512", expiryDate |-> <<>>, issuedDate |-> <<>>,
   selectedKeyId |-> "", validation |-> <<>>]

SetJwtPayload(j, e, a, x, i) ==
  [jwt |-> j, editorValue |-> e, algorithm |-> a, expiryDate |-> x, issuedDate |-> i]
Action(t, p) == [type |-> t, payload |-> p]

editorReducer(s, a) ==
  CASE a.type = "SET_INPUT" -> [s EXCEPT !.inputValue = a.payload]
    [] a.type = "SET_JWT" ->
         [s EXCEPT !.jwt = a.payload.jwt,
                   !.editorValue = a.payload.editorValue,
                   !.algorithm = IF a.payload.algorithm # <<>> THEN a.payload.algorithm[1] ELSE @,
                   !.expiryDate = IF a.payload.expiryDate # <<>> THEN a.payload.expiryDate ELSE @,
                   !.issuedDate = IF a.payload.issuedDate # <<>> THEN a.payload.issuedDate ELSE @]
    [] a.type = "SET_EDITOR_VALUE" -> [s EXCEPT !.editorValue = a.payload]
    [] a.type = "SET_ALGORITHM" -> [s EXCEPT !.algorithm = a.payload]
    [] a.type = "SET_EXPIRY_DATE" -> [s EXCEPT !.expiryDate = a.payload]
    [] a.type = "SET_ISSUED_DATE" -> [s EXCEPT !.issuedDate = a.payload]
    [] a.type = "SET_SELECTED_KEY" -> [s EXCEPT !.selectedKeyId = a.payload]
    [] a.type = "SET_VALIDATION" -> [s EXCEPT !.validation = a.payload]
    [] a.type = "CLEAR" -> [initialState EXCEPT !.selectedKeyId = s.selectedKeyId]
    [] OTHER -> s

isDirty(s, ref) == s.editorValue # ref /\ s.jwt # EmptyString

\* ------------------------------------------------- pending continuations
NoBasis == [text |-> <<>>, expiryPicked |-> FALSE, issuedPicked |-> FALSE,
            issuedDate |-> <<>>, calledAt |-> 0, sessionJwt |-> EmptyString]
Op(kind, j, k, p, a, x, b) ==
  [op |-> kind, jwt |-> j, key |-> k, payload |-> p, algorithm |-> a, expiry |-> x, basis |-> b]
VerifyOp(kind, j, k) == Op(kind, j, k, <<>>, "", 0, NoBasis)

Pending == Len(microQ) + BagCardinality(inflight)

\* validateJWTSignature returns without waiting for a crypto primitive when
\* no key is given, the header does not parse, or the PEM text is refused
\* before the import
VerifyIsImmediate(j, k) ==
  \/ k = <<>>
  \/ j.kind # "jwt"
  \/ checkPrivateKeyThrows(k[1].publicKey)
  \/ k[1].publicKey.header # "PUBLIC KEY"
VerifyMicro(j, k) == IF VerifyIsImmediate(j, k) THEN << VerifyOp("validation", j, k) >> ELSE <<>>
VerifyCrypto(j, k) == IF VerifyIsImmediate(j, k) THEN EmptyBag ELSE SetToBag({VerifyOp("verify", j, k)})

\* ---------------------------------------------------------------- effects
\* an effect that leaves the selection to the operator
InitialKeyEffectSkipped(s, kps) == s

\* "Set initial selected key when keyPairs load"
InitialKeyEffect(s, kps) ==
  IF Len(kps) > 0 /\ s.selectedKeyId = ""
    THEN editorReducer(s, Action("SET_SELECTED_KEY", kps[1].id))
    ELSE s

\* a validate effect that also lists the payload text and the dates among its
\* dependencies
ValidateEffectOnEdit(old, oldKps, new, newKps) ==
  IF /\ (\/ new.selectedKeyId # old.selectedKeyId \/ new.jwt # old.jwt \/ newKps # oldKps
         \/ new.editorValue # old.editorValue
         \/ new.expiryDate # old.expiryDate
         \/ new.issuedDate # old.issuedDate)
     /\ new.jwt # EmptyString
     /\ new.selectedKeyId # ""
    THEN << [jwt |-> new.jwt, key |-> getKeyPairById(newKps, new.selectedKeyId)] >>
    ELSE <<>>

\* "Validate JWT when selected key changes": runs when selectedKeyId, jwt or
\* getKeyPairById changed since the previous render
ValidateEffect(old, oldKps, new, newKps) ==
  IF /\ (new.selectedKeyId # old.selectedKeyId \/ new.jwt # old.jwt \/ newKps # oldKps)
     /\ new.jwt # EmptyString
     /\ new.selectedKeyId # ""
    THEN << [jwt |-> new.jwt, key |-> getKeyPairById(newKps, new.selectedKeyId)] >>
    ELSE <<>>

\* The render that follows the dispatches of one handler or continuation,
\* with the effects it triggers.  s2, kps2: the state and key pairs after the
\* dispatches; q, fl: the pending continuations after the handler's own work.
Render(s2, kps2, q, fl) ==
  LET s3 == InitialKeyEffect(s2, kps2)
      v == ValidateEffect(state, keyPairs, s3, kps2)
  IN /\ state' = s3
     /\ keyPairs' = kps2
     /\ microQ' = q \o (IF v = <<>> THEN <<>> ELSE VerifyMicro(v[1].jwt, v[1].key))
     /\ inflight' = fl (+) (IF v = <<>> THEN EmptyBag ELSE VerifyCrypto(v[1].jwt, v[1].key))

\* ---------------------------------------------------------------- actions
\* useLocalStorageCollection's mount effect delivers the stored key pairs (an
\* effect run by the scheduler, so no continuation waits in the microtask queue)
LoadKeyPairs ==
  /\ UNCHANGED events
  /\ microQ = <<>>
  /\ keyPairs = <<>>
  /\ Render(state, StoredKeyPairs, microQ, inflight)
  /\ UNCHANGED <<originalEditorValueRef, now, toast, emptyInputLast, expiryPicked, issuedPicked, codec, store, loadedText, crud, tpl>>

\* handleInputChange(value) up to its first await
InputChangeWith(value, selectedKey) ==
  /\ Pending < MaxPending
  /\ IF value = EmptyString
       THEN /\ Render(editorReducer(editorReducer(state, Action("SET_INPUT", value)),
                                    Action("CLEAR", <<>>)),
                      keyPairs, microQ, inflight)
            /\ emptyInputLast' = TRUE
            /\ expiryPicked' = FALSE
            /\ issuedPicked' = FALSE
       ELSE /\ Render(editorReducer(state, Action("SET_INPUT", value)), keyPairs,
                      Append(microQ, VerifyOp("input", value, selectedKey)),
                      inflight)
            /\ emptyInputLast' = FALSE
            /\ UNCHANGED <<expiryPicked, issuedPicked>>
  /\ UNCHANGED <<originalEditorValueRef, now, toast, codec, store, loadedText, crud>>

\* handleInputChange as the current render holds it: the selected key pair is
\* the one of that render
InputChangeCall(value) ==
  InputChangeWith(value, getKeyPairById(keyPairs, state.selectedKeyId))

\* the token input: onChange calls handleInputChange(e.target.value)
HandleInputChange(value) ==
  /\ events < MaxEvents /\ events' = events + 1
  /\ InputChangeCall(value)
  /\ UNCHANGED tpl

\* an adoption of whatever algorithm the header names
newAlgorithmOfAny(value) ==
  LET metadata == getJwtMetadata(value) IN
  IF metadata # <<>> THEN metadata[1].algorithm ELSE <<>>

\* the algorithm / dates handleInputChange adopts from the token
newAlgorithmOf(value) ==
  LET metadata == getJwtMetadata(value) IN
  IF metadata # <<>> /\ metadata[1].algorithm # <<>>
       /\ metadata[1].algorithm[1] \in SUPPORTED_ALGORITHMS
    THEN metadata[1].algorithm ELSE <<>>
newExpiryDateOf(value) ==
  LET metadata == getJwtMetadata(value) IN
  IF metadata # <<>> THEN metadata[1].expiresAt ELSE <<>>
newIssuedDateOf(value) ==
  LET metadata == getJwtMetadata(value) IN
  IF metadata # <<>> THEN metadata[1].issuedAt ELSE <<>>

\* a continuation that gives up on a text without metadata instead of loading it
InputContinuationRejects ==
  /\ UNCHANGED events
  /\ microQ # <<>>
  /\ Head(microQ).op = "input"
  /\ LET c == Head(microQ)
         value == c.jwt
         payloadOnly == payloadOnlyOf(decodeJWT(value))
         s2 == editorReducer(state,
                 Action("SET_JWT", SetJwtPayload(value, payloadOnly, newAlgorithmOf(value),
                                                 newExpiryDateOf(value), newIssuedDateOf(value))))
     IN IF getJwtMetadata(value) = <<>>
          THEN /\ Render(state, keyPairs, Tail(microQ), inflight)
               /\ UNCHANGED <<originalEditorValueRef, expiryPicked, issuedPicked, loadedText, crud, tpl>>
          ELSE /\ originalEditorValueRef' = payloadOnly
               /\ Render(s2, keyPairs, Tail(microQ) \o VerifyMicro(value, c.key),
                         inflight (+) VerifyCrypto(value, c.key))
               /\ expiryPicked' = (expiryPicked /\ newExpiryDateOf(value) = <<>>)
               /\ issuedPicked' = (issuedPicked /\ newIssuedDateOf(value) = <<>>)
               /\ loadedText' = <<payloadOnly>>
  /\ UNCHANGED <<now, toast, emptyInputLast, codec, store, crud, tpl>>

\* handleInputChange after `await decodeJWT(value)`: SET_JWT, the dirty
\* baseline, and the start of the signature validation
InputContinuation ==
  /\ UNCHANGED events
  /\ microQ # <<>>
  /\ Head(microQ).op = "input"
  /\ LET c == Head(microQ)
         value == c.jwt
         payloadOnly == payloadOnlyOf(decodeJWT(value))
         s2 == editorReducer(state,
                 Action("SET_JWT", SetJwtPayload(value, payloadOnly, newAlgorithmOf(value),
                                                 newExpiryDateOf(value), newIssuedDateOf(value))))
     IN /\ originalEditorValueRef' = payloadOnly
        /\ Render(s2, keyPairs, Tail(microQ) \o VerifyMicro(value, c.key),
                  inflight (+) VerifyCrypto(value, c.key))
        /\ expiryPicked' = (expiryPicked /\ newExpiryDateOf(value) = <<>>)
        /\ issuedPicked' = (issuedPicked /\ newIssuedDateOf(value) = <<>>)
        /\ loadedText' = <<payloadOnly>>
  /\ UNCHANGED <<now, toast, emptyInputLast, codec, store, crud, tpl>>

\* a validation that resolved without a crypto primitive is dispatched
ValidationMicrotask ==
  /\ UNCHANGED events
  /\ microQ # <<>>
  /\ Head(microQ).op = "validation"
  /\ LET c == Head(microQ) IN
       Render(editorReducer(state, Action("SET_VALIDATION",
                                          << validateJWTSignature(c.jwt, c.key, now) >>)),
              keyPairs, Tail(microQ), inflight)
  /\ UNCHANGED <<originalEditorValueRef, now, toast, emptyInputLast, expiryPicked, issuedPicked, codec, store, loadedText, crud, tpl>>

\* a catch that also resets the session
SignFailedMicrotaskClears ==
  /\ UNCHANGED events
  /\ microQ # <<>>
  /\ Head(microQ).op = "signFailed"
  /\ toast' = showError(toast, SignFailedMessage)
  /\ Render(editorReducer(state, Action("CLEAR", <<>>)), keyPairs, Tail(microQ), inflight)
  /\ UNCHANGED <<originalEditorValueRef, now, emptyInputLast, expiryPicked, issuedPicked, codec, store, loadedText, crud, tpl>>

\* handleSign's catch after signJWT rejected before reaching a crypto primitive
SignFailedMicrotask ==
  /\ UNCHANGED events
  /\ microQ # <<>>
  /\ Head(microQ).op = "signFailed"
  /\ toast' = showError(toast, SignFailedMessage)
  /\ microQ' = Tail(microQ)
  /\ UNCHANGED <<state, originalEditorValueRef, keyPairs, now, inflight, emptyInputLast,
                 expiryPicked, issuedPicked, codec, store, loadedText, crud, tpl>>

\* a signature validation resolves: a task of the event loop, so the
\* microtask queue is empty
VerifyComplete(o) ==
  /\ UNCHANGED events
  /\ microQ = <<>>
  /\ o.op = "verify"
  /\ BagIn(o, inflight)
  /\ Render(editorReducer(state, Action("SET_VALIDATION",
                                        << validateJWTSignature(o.jwt, o.key, now) >>)),
            keyPairs, microQ, inflight (-) SetToBag({o}))
  /\ UNCHANGED <<originalEditorValueRef, now, toast, emptyInputLast, expiryPicked, issuedPicked, codec, store, loadedText, crud, tpl>>

\* handleSign up to `await signJWT(...)`
signPayloadOf(s) ==
  LET payload == JSONparse(s.editorValue)
      withExp == IF s.expiryDate # <<>>
                   THEN SetMember(payload, "exp", Floor(s.expiryDate[1])) ELSE payload
  IN IF s.issuedDate # <<>>
       THEN SetMember(withExp, "iat", Floor(s.issuedDate[1])) ELSE withExp
signExpiryOf(s, t) ==
  LET payload == signPayloadOf(s) IN
  IF s.expiryDate # <<>> THEN s.expiryDate[1]
  ELSE IF Has(payload, "exp") /\ Get(payload, "exp") # 0
         THEN Get(payload, "exp") * MsPerSecond
         ELSE t
SignRejectsEarly(k) == k = <<>> \/ checkPrivateKeyThrows(k[1].privateKey)

HandleSign ==
  /\ events < MaxEvents /\ events' = events + 1
  /\ Pending < MaxPending
  /\ LET selectedKey == getKeyPairById(keyPairs, state.selectedKeyId) IN
     IF selectedKey = <<>>
       THEN UNCHANGED <<microQ, inflight, toast, emptyInputLast>>
     ELSE IF JSONparseThrows(state.editorValue)
       THEN /\ toast' = showError(toast, InvalidJsonMessage)
            /\ UNCHANGED <<microQ, inflight, emptyInputLast>>
     ELSE LET o == Op(IF SignRejectsEarly(selectedKey) THEN "signFailed" ELSE "sign",
                      EmptyString, selectedKey, signPayloadOf(state), state.algorithm,
                      signExpiryOf(state, now),
                      [text |-> JSONparse(state.editorValue),
                       expiryPicked |-> expiryPicked, issuedPicked |-> issuedPicked,
                       issuedDate |-> state.issuedDate, calledAt |-> now,
                       sessionJwt |-> state.jwt])
          IN /\ IF SignRejectsEarly(selectedKey)
                  THEN microQ' = Append(microQ, o) /\ UNCHANGED inflight
                  ELSE inflight' = inflight (+) SetToBag({o}) /\ UNCHANGED microQ
             /\ emptyInputLast' = FALSE
             /\ UNCHANGED toast
  /\ UNCHANGED <<state, originalEditorValueRef, keyPairs, now, expiryPicked, issuedPicked, codec, store, loadedText, crud, tpl>>

\* signJWT resolves; handleSign re-decodes the token and dispatches SET_JWT,
\* or shows the error
SignComplete(o) ==
  /\ UNCHANGED events
  /\ microQ = <<>>
  /\ o.op = "sign"
  /\ BagIn(o, inflight)
  /\ LET r == signJWT(o.payload, o.algorithm, o.key, o.expiry, now) IN
     IF r.ok
       THEN /\ Render(editorReducer(state,
                        Action("SET_JWT", SetJwtPayload(r.token, payloadOnlyOf(decodeJWT(r.token)),
                                                        <<>>, <<>>, <<>>))),
                      keyPairs, microQ, inflight (-) SetToBag({o}))
            /\ emptyInputLast' = FALSE
            /\ UNCHANGED toast
       ELSE /\ toast' = showError(toast, SignFailedMessage)
            /\ inflight' = inflight (-) SetToBag({o})
            /\ UNCHANGED <<state, keyPairs, microQ, emptyInputLast>>
  /\ UNCHANGED <<originalEditorValueRef, now, expiryPicked, issuedPicked, codec, store, loadedText, crud, tpl>>

\* a key selection that also resets the session
SelectKeyResets(id) ==
  /\ events < MaxEvents /\ events' = events + 1
  /\ Pending < MaxPending
  /\ \E i \in 1..Len(keyPairs) : keyPairs[i].id = id
  /\ Render(editorReducer(editorReducer(state, Action("CLEAR", <<>>)),
                          Action("SET_SELECTED_KEY", id)),
            keyPairs, microQ, inflight)
  /\ UNCHANGED <<originalEditorValueRef, now, toast, emptyInputLast, expiryPicked, issuedPicked, codec, store, loadedText, crud, tpl>>

\* the key selector
SelectKey(id) ==
  /\ events < MaxEvents /\ events' = events + 1
  /\ Pending < MaxPending
  /\ \E i \in 1..Len(keyPairs) : keyPairs[i].id = id
  /\ Render(editorReducer(state, Action("SET_SELECTED_KEY", id)), keyPairs, microQ, inflight)
  /\ UNCHANGED <<originalEditorValueRef, now, toast, emptyInputLast, expiryPicked, issuedPicked, codec, store, loadedText, crud, tpl>>

\* the payload editor: value || '{}'
SetEditorValue(text) ==
  /\ events < MaxEvents /\ events' = events + 1
  /\ Render(editorReducer(state, Action("SET_EDITOR_VALUE", text)), keyPairs, microQ, inflight)
  /\ UNCHANGED <<originalEditorValueRef, now, toast, emptyInputLast, expiryPicked, issuedPicked, codec, store, loadedText, crud, tpl>>

SetExpiryDate(d) ==
  /\ events < MaxEvents /\ events' = events + 1
  /\ Render(editorReducer(state, Action("SET_EXPIRY_DATE", d)), keyPairs, microQ, inflight)
  /\ expiryPicked' = (d # <<>>)
  /\ UNCHANGED <<originalEditorValueRef, now, toast, emptyInputLast, issuedPicked, codec, store, loadedText, crud, tpl>>

SetIssuedDate(d) ==
  /\ events < MaxEvents /\ events' = events + 1
  /\ Render(editorReducer(state, Action("SET_ISSUED_DATE", d)), keyPairs, microQ, inflight)
  /\ issuedPicked' = (d # <<>>)
  /\ UNCHANGED <<originalEditorValueRef, now, toast, emptyInputLast, expiryPicked, codec, store, loadedText, crud, tpl>>

ClearJwt ==
  /\ events < MaxEvents /\ events' = events + 1
  /\ LET cleared == editorReducer(state, Action("CLEAR", <<>>)) IN
       Render(IF Len(keyPairs) > 0
                THEN editorReducer(cleared, Action("SET_SELECTED_KEY", keyPairs[1].id))
                ELSE cleared,
              keyPairs, microQ, inflight)
  /\ originalEditorValueRef' = EmptyObjectText
  /\ UNCHANGED emptyInputLast
  /\ expiryPicked' = FALSE
  /\ issuedPicked' = FALSE
  /\ tpl' = [tpl EXCEPT !.sourceTemplateId = <<>>]
  /\ UNCHANGED <<now, toast, codec, store, loadedText, crud>>

Tick ==
  /\ UNCHANGED events
  /\ now + TickMs <= MaxNow
  /\ now' = now + TickMs
  /\ UNCHANGED <<state, originalEditorValueRef, keyPairs, microQ, inflight, toast, emptyInputLast,
                 expiryPicked, issuedPicked, codec, store, loadedText, crud, tpl>>

\* ------------------------------------------- persisted collection store
\* useLocalStorageCollection.  A storage entry is what localStorage holds
\* under the storage key: nothing, a text that is not JSON, the JSON text of
\* a value that is not an array, or the JSON text of an array of records.
\* Record ids are numbers here: 0 is a default's id, crypto.randomUUID()
\* yields the numbers from 1 on, stored records have ids from 90 on.
StorageMissing == [kind |-> "missing", items |-> <<>>]
StorageNotJson == [kind |-> "notjson", items |-> <<>>]
StorageNotArray == [kind |-> "notarray", items |-> <<>>]
stringifyItems(items) == [kind |-> "array", items |-> items]
getItem(storage) == storage
parseThrows(saved) == saved.kind = "notjson"
isNonEmptyArray(saved) == saved.kind = "array" /\ Len(saved.items) > 0

Item(i, t, n) == [id |-> i, createdAt |-> t, name |-> n]
DEFAULT_TEMPLATES == << Item(0, 0, "free") >>
StoredItem == Item(90, 0, "old")

\* a persist that swallows the failure
persistSilent(storage, error, newItems, quotaOk) ==
  IF quotaOk
    THEN [storage |-> stringifyItems(newItems), error |-> error]
    ELSE [storage |-> storage, error |-> error]

\* a persist that keeps the stored records the new collection no longer has
persistMerged(storage, error, newItems, quotaOk) ==
  LET kept == IF storage.kind = "array"
                THEN SelectSeq(storage.items,
                               LAMBDA r : \A j \in 1..Len(newItems) : newItems[j].id # r.id)
                ELSE <<>>
  IN IF quotaOk
       THEN [storage |-> stringifyItems(kept \o newItems), error |-> error]
       ELSE [storage |-> storage, error |-> <<"Failed to save to storage">>]

\* persist(newItems): the storage entry and the error it leaves.  quotaOk:
\* localStorage.setItem does not throw.
persist(storage, error, newItems, quotaOk) ==
  IF quotaOk
    THEN [storage |-> stringifyItems(newItems), error |-> error]
    ELSE [storage |-> storage, error |-> <<"Failed to save to storage">>]

\* the load effect: the items it sets (<<>> when it sets none), the storage
\* entry and the error it leaves
loadEffect(storage, defaults, quotaOk) ==
  LET saved == getItem(storage)
      seed == IF quotaOk
                THEN [items |-> defaults, storage |-> stringifyItems(defaults), error |-> <<>>]
                ELSE [items |-> defaults, storage |-> storage,
                      error |-> <<"Failed to load from storage">>]
      none == [items |-> <<>>, storage |-> storage, error |-> <<>>]
  IN IF saved.kind # "missing"
       THEN IF parseThrows(saved)
              THEN [items |-> defaults, storage |-> storage,
                    error |-> <<"Failed to load from storage">>]
            ELSE IF isNonEmptyArray(saved)
              THEN [items |-> saved.items, storage |-> storage, error |-> <<>>]
            ELSE IF Len(defaults) > 0 THEN seed
            ELSE none
       ELSE IF Len(defaults) > 0 THEN seed
       ELSE none

newItemOf(name, uuid, t) == Item(uuid, t, name)
\* [newItem, ...prev]
prependItems(prev, newItem) == <<newItem>> \o prev
addItems(prev, newItem) == Append(prev, newItem)
updateItems(prev, id, name) ==
  [i \in 1..Len(prev) |-> IF prev[i].id = id THEN [prev[i] EXCEPT !.name = name] ELSE prev[i]]
\* a filter with the test inverted
keepOnlyItems(prev, id) == SelectSeq(prev, LAMBDA r : r.id = id)
RECURSIVE removeItems(_, _)
removeItems(prev, id) ==
  IF prev = <<>> THEN <<>>
  ELSE IF Head(prev).id = id THEN removeItems(Tail(prev), id)
  ELSE <<Head(prev)>> \o removeItems(Tail(prev), id)

Instances == {1, 2}
ItemNames == {"a", "b"}
UpdateNames == {"c"}
InitialStorages == {StorageMissing, StorageNotJson, StorageNotArray,
                    stringifyItems(<<>>), stringifyItems(<<StoredItem>>)}
DefaultSets == {<<>>, DEFAULT_TEMPLATES}

Unmounted == [mounted |-> FALSE, items |-> <<>>, error |-> <<>>, loadedFrom |-> "none"]
NoCall == [op |-> "none", inst |-> 0, id |-> 0, name |-> "", before |-> <<>>,
           beforeStorage |-> StorageMissing, quotaOk |-> TRUE, seededBefore |-> FALSE]
StoreIdle == [storage |-> StorageMissing, inst |-> [i \in Instances |-> Unmounted],
              defaults |-> <<>>, nextId |-> 1, ops |-> 0, seeded |-> FALSE,
              last |-> NoCall, written |-> [inst |-> 0, items |-> <<>>]]

\* ------------------------------------------------------------- templates
\* The templates the editor works with (use-templates over the persisted
\* collection), the names typed into the save form and the ids the Templates
\* page can hand over.
DayMs == 24 * 60 * 60 * MsPerSecond
TemplateRec(i, n, k) == [id |-> i, name |-> n, activationKey |-> k]
StoredTemplates == << TemplateRec(1, "Demo", TokenA), TemplateRec(2, "Old", TokenB) >>
TemplateNames == {"", "  ", "demo", "New"}
MarkerIds == {1, 2, 90}
trim(n) == IF n = "  " THEN "" ELSE n
toLowerCase(n) == IF n = "Demo" THEN "demo" ELSE IF n = "Old" THEN "old" ELSE IF n = "New" THEN "new" ELSE n

getTemplateById(templates, id) == getKeyPairById(templates, id)
findTemplateByName(templates, name) ==
  LET hits == {i \in 1..Len(templates) : toLowerCase(templates[i].name) = toLowerCase(name)}
  IN IF hits = {} THEN <<>>
     ELSE << templates[CHOOSE i \in hits : \A j \in hits : i <= j] >>
addTemplate(templates, t) == Append(templates, t)
updateTemplate(templates, id, name, key) ==
  [i \in 1..Len(templates) |->
     IF templates[i].id = id
       THEN [templates[i] EXCEPT !.name = name, !.activationKey = key]
       ELSE templates[i]]

isJwtExpired(jwt, t) ==
  LET metadata == getJwtMetadata(jwt) IN
  /\ jwt # EmptyString
  /\ metadata # <<>>
  /\ metadata[1].expiresAt # <<>>
  /\ metadata[1].expiresAt[1] < t

NoSave == [op |-> "none", name |-> "", existing |-> <<>>, before |-> <<>>, atMs |-> 0,
           asExpired |-> FALSE, stored |-> <<>>]
TplIdle == [templates |-> <<>>, loaded |-> FALSE, sourceTemplateId |-> <<>>, marker |-> <<>>,
            confirm |-> <<>>, saves |-> <<>>, saveTemplateOpen |-> FALSE, templateName |-> "",
            showExpiryWarning |-> FALSE, saveAsExpired |-> FALSE, nextId |-> 3,
            opened |-> 0, handoffs |-> 0, last |-> NoSave]

\* ------------------------------------------------------- CRUD form state
\* useCrudState: the form state of a list page.  The items a caller can pass
\* and the values typed into the new-item form are drawn from these sets.
CrudIds == {"t1", "t2", "t3"}
CrudNames == {"a", "b"}
CrudItem(i, n) == [id |-> i, name |-> n]
CrudItems == {CrudItem(i, n) : i \in CrudIds, n \in CrudNames}
emptyItem == [name |-> "", content |-> ""]
NewItems == {[name |-> n, content |-> c] : n \in {""} \cup CrudNames, c \in {"", "x", "y"}}
CrudIdle == [isAddingNew |-> FALSE, newItem |-> emptyItem, editingId |-> <<>>, editingItem |-> <<>>]

\* -------------------------------------------------------- specification
CodecIdle == [pc |-> "idle", payload |-> <<>>, algorithm |-> "ES512", keyPair |-> <<>>,
              expiry |-> 0, token |-> EmptyString, signedAt |-> 0, verifiedAt |-> 0,
              result |-> <<>>, read |-> <<>>]

Init ==
  /\ state = initialState
  /\ originalEditorValueRef = EmptyObjectText
  /\ keyPairs = <<>>
  /\ now = StartMs
  /\ microQ = <<>>
  /\ inflight = EmptyBag
  /\ toast = <<>>
  /\ emptyInputLast = FALSE
  /\ expiryPicked = FALSE
  /\ issuedPicked = FALSE
  /\ codec = CodecIdle
  /\ events = 0
  /\ loadedText = <<>>
  /\ crud = CrudIdle
  /\ tpl = TplIdle
  /\ store = StoreIdle

Next ==
  \/ LoadKeyPairs
  \/ \E value \in InputTokens : HandleInputChange(value)
  \/ InputContinuation
  \/ ValidationMicrotask
  \/ SignFailedMicrotask
  \/ \E o \in BagToSet(inflight) : VerifyComplete(o)
  \/ HandleSign
  \/ \E o \in BagToSet(inflight) : SignComplete(o)
  \/ \E id \in {"k1", "k2"} : SelectKey(id)
  \/ \E text \in EditorTexts : SetEditorValue(text)
  \/ \E d \in PickDates : SetExpiryDate(d)
  \/ \E d \in PickDates : SetIssuedDate(d)
  \/ ClearJwt
  \/ Tick

Spec == Init /\ [][Next]_vars

\* The session driven by setInput, selectKey, sign and clear only, with the
\* asynchronous completions of these calls
SessionNext ==
  \/ LoadKeyPairs
  \/ \E value \in InputTokens : HandleInputChange(value)
  \/ InputContinuation
  \/ ValidationMicrotask
  \/ SignFailedMicrotask
  \/ \E o \in BagToSet(inflight) : VerifyComplete(o)
  \/ HandleSign
  \/ \E o \in BagToSet(inflight) : SignComplete(o)
  \/ \E id \in {"k1", "k2"} : SelectKey(id)
  \/ ClearJwt
  \/ Tick

SpecSession == Init /\ [][SessionNext]_vars

\* ------------------------------------------------ sign / verify rounds
\* SpecCodec applies the signer and the verifier, as pure functions of their
\* inputs and the clock, to inputs drawn from these sets.
CodecPayloads == { <<>>, << <<"lic", 7>> >>, << <<"lic", 7>>, <<"exp", 9>>, <<"iat", 5>> >> }
CodecExpiries == {500, 1500, 9000}
CodecKeys == { generateEC512KeyPair(1, "g1"), generateEC512KeyPair(2, "g2") }
TokenZero == Jwt("ES512", << <<"lic", 7>>, <<"iat", 0>>, <<"exp", 0>> >>, 1, TRUE)
TokenNoAlg == Jwt("", << <<"lic", 7>> >>, 1, TRUE)
CodecTokens == {EmptyString, MalformedToken, TokenA, TokenB, TokenZero, TokenNoAlg, TokenOtherAlg}
\* the key pair argument: none, a generated pair, or a pair whose public key
\* text is no SPKI PEM
CodecKeyPairs ==
  {<<>>} \cup {<<k>> : k \in CodecKeys}
         \cup { << KeyPairRec("g3", Pem("PRIVATE KEY", 1), Pem("CERTIFICATE", 1)) >> }

CodecInit ==
  /\ state = initialState
  /\ originalEditorValueRef = EmptyObjectText
  /\ keyPairs = <<>>
  /\ now = StartMs
  /\ microQ = <<>>
  /\ inflight = EmptyBag
  /\ toast = <<>>
  /\ emptyInputLast = FALSE
  /\ expiryPicked = FALSE
  /\ issuedPicked = FALSE
  /\ events = 0
  /\ loadedText = <<>>
  /\ crud = CrudIdle
  /\ tpl = TplIdle
  /\ store = StoreIdle
  /\ \E p \in CodecPayloads, a \in SUPPORTED_ALGORITHMS, k \in CodecKeyPairs,
        e \in CodecExpiries, t \in CodecTokens :
       codec = [pc |-> "start", payload |-> p, algorithm |-> a, keyPair |-> k,
                expiry |-> e, token |-> t, signedAt |-> 0, verifiedAt |-> 0,
                result |-> <<>>, read |-> <<>>]

\* token := signJWT(payload, algorithm, keyPair, expiry)
CodecSign ==
  /\ codec.pc = "start"
  /\ codec.token = EmptyString
  /\ LET r == signJWT(codec.payload, codec.algorithm, codec.keyPair, codec.expiry, now) IN
       codec' = [codec EXCEPT !.pc = IF r.ok THEN "signed" ELSE "failed",
                              !.token = r.token,
                              !.signedAt = now,
                              !.read = <<>>]
  /\ UNCHANGED <<state, originalEditorValueRef, keyPairs, now, microQ, inflight, toast,
                 emptyInputLast, expiryPicked, issuedPicked, events, store, loadedText, crud, tpl>>

\* result := validateJWTSignature(token, keyPair)
CodecVerify ==
  /\ \/ codec.pc = "start" /\ codec.token # EmptyString
     \/ codec.pc \in {"signed", "verified"}
  /\ codec' = [codec EXCEPT !.pc = "verified",
                            !.verifiedAt = now,
                            !.result = << validateJWTSignature(codec.token, codec.keyPair, now) >>]
  /\ UNCHANGED <<state, originalEditorValueRef, keyPairs, now, microQ, inflight, toast,
                 emptyInputLast, expiryPicked, issuedPicked, events, store, loadedText, crud, tpl>>

\* decodeJWT(token) and getJwtMetadata(token)
CodecDecode ==
  /\ codec.pc # "idle"
  /\ codec.read = <<>>
  /\ codec' = [codec EXCEPT !.read = << [decoded |-> decodeJWT(codec.token),
                                         metadata |-> getJwtMetadata(codec.token)] >>]
  /\ UNCHANGED <<state, originalEditorValueRef, keyPairs, now, microQ, inflight, toast,
                 emptyInputLast, expiryPicked, issuedPicked, events, store, loadedText, crud, tpl>>

CodecNext == CodecSign \/ CodecVerify \/ CodecDecode \/ Tick

SpecCodec == CodecInit /\ [][CodecNext]_vars

\* ------------------------------------------------ CRUD form at work
CrudFrame ==
  UNCHANGED <<state, originalEditorValueRef, keyPairs, now, microQ, inflight, toast,
              emptyInputLast, expiryPicked, issuedPicked, events, codec, store, loadedText, tpl>>

setNewItem(v) ==
  /\ crud' = [crud EXCEPT !.newItem = v]
  /\ CrudFrame

startAdding ==
  /\ crud' = [crud EXCEPT !.isAddingNew = TRUE, !.editingId = <<>>, !.editingItem = <<>>]
  /\ CrudFrame

cancelAdding ==
  /\ crud' = [crud EXCEPT !.isAddingNew = FALSE, !.newItem = emptyItem]
  /\ CrudFrame

resetNew ==
  /\ crud' = [crud EXCEPT !.newItem = emptyItem, !.isAddingNew = FALSE]
  /\ CrudFrame

startEditing(item) ==
  /\ crud' = [crud EXCEPT !.editingId = <<item.id>>, !.editingItem = <<item>>,
                          !.isAddingNew = FALSE]
  /\ CrudFrame

cancelEditing ==
  /\ crud' = [crud EXCEPT !.editingId = <<>>, !.editingItem = <<>>]
  /\ CrudFrame

toggleEdit(item) ==
  /\ IF crud.editingId = <<item.id>>
       THEN crud' = [crud EXCEPT !.editingId = <<>>, !.editingItem = <<>>]
       ELSE crud' = [crud EXCEPT !.editingId = <<item.id>>, !.editingItem = <<item>>]
  /\ CrudFrame

CrudInit ==
  /\ state = initialState
  /\ originalEditorValueRef = EmptyObjectText
  /\ keyPairs = <<>>
  /\ now = StartMs
  /\ microQ = <<>>
  /\ inflight = EmptyBag
  /\ toast = <<>>
  /\ emptyInputLast = FALSE
  /\ expiryPicked = FALSE
  /\ issuedPicked = FALSE
  /\ events = 0
  /\ codec = CodecIdle
  /\ store = StoreIdle
  /\ loadedText = <<>>
  /\ crud = CrudIdle
  /\ tpl = TplIdle

CrudNext ==
  \/ \E v \in NewItems : setNewItem(v)
  \/ startAdding
  \/ cancelAdding
  \/ resetNew
  \/ \E item \in CrudItems : startEditing(item)
  \/ cancelEditing
  \/ \E item \in CrudItems : toggleEdit(item)

SpecCrud == CrudInit /\ [][CrudNext]_vars

\* ------------------------------------------------ templates at work
NoNameMessage == "Please enter a template name"
NoKeyToSaveMessage == "No activation key to save"
NoSigningKeyMessage == "No signing key selected"
ExpiredKeyFailedMessage == "Failed to generate expired activation key"

TplSessionFrame ==
  UNCHANGED <<state, originalEditorValueRef, keyPairs, microQ, inflight, emptyInputLast,
              expiryPicked, issuedPicked, loadedText>>
TplOtherFrame == UNCHANGED <<now, codec, store, crud>>

\* a hand-off effect that leaves the marker in place
PendingTemplateEffectKeepsMarker(templates) ==
  LET found == IF tpl.marker # <<>> /\ Len(templates) > 0
                 THEN getTemplateById(templates, tpl.marker[1]) ELSE <<>>
  IN IF found # <<>>
       THEN /\ tpl' = [tpl EXCEPT !.templates = templates, !.loaded = TRUE,
                                  !.sourceTemplateId = << found[1].id >>,
                                  !.handoffs = @ + 1]
            /\ InputChangeCall(found[1].activationKey)
       ELSE /\ tpl' = [tpl EXCEPT !.templates = templates, !.loaded = TRUE]
            /\ TplSessionFrame
            /\ TplOtherFrame
            /\ UNCHANGED toast

\* "Check for pending template to load when templates are available", run
\* after a render that holds the collection `templates`
PendingTemplateEffect(templates) ==
  LET found == IF tpl.marker # <<>> /\ Len(templates) > 0
                 THEN getTemplateById(templates, tpl.marker[1]) ELSE <<>>
  IN IF found # <<>>
       THEN /\ tpl' = [tpl EXCEPT !.templates = templates, !.loaded = TRUE,
                                  !.marker = <<>>,
                                  !.sourceTemplateId = << found[1].id >>,
                                  !.handoffs = @ + 1]
            /\ InputChangeCall(found[1].activationKey)
       ELSE /\ tpl' = [tpl EXCEPT !.templates = templates, !.loaded = TRUE]
            /\ TplSessionFrame
            /\ TplOtherFrame
            /\ UNCHANGED toast

\* the collection's mount effect delivers the stored templates
TemplatesLoad ==
  /\ UNCHANGED events
  /\ microQ = <<>>
  /\ ~tpl.loaded
  /\ PendingTemplateEffect(StoredTemplates)

\* a later run of the effect (its dependencies changed)
PendingEffectRerun ==
  /\ UNCHANGED events
  /\ tpl.loaded
  /\ tpl.marker # <<>>
  /\ PendingTemplateEffect(tpl.templates)

\* Templates page, "open in editor": the marker is written to localStorage
loadInEditor(templateId) ==
  /\ events < MaxEvents /\ events' = events + 1
  /\ tpl.confirm = <<>>
  /\ tpl' = [tpl EXCEPT !.marker = <<templateId>>, !.opened = @ + 1]
  /\ TplSessionFrame
  /\ TplOtherFrame
  /\ UNCHANGED toast

\* a switch that does not ask
SwitchTemplateUnasked(templateId) ==
  LET template == getTemplateById(tpl.templates, templateId) IN
  /\ events < MaxEvents /\ events' = events + 1
  /\ tpl.confirm = <<>>
  /\ IF template = <<>>
       THEN UNCHANGED tpl /\ TplSessionFrame /\ TplOtherFrame /\ UNCHANGED toast
       ELSE /\ tpl' = [tpl EXCEPT !.sourceTemplateId = << template[1].id >>]
            /\ InputChangeCall(template[1].activationKey)

\* handleSwitchTemplate up to `await confirm(...)`, or to its end when the
\* session is not dirty
handleSwitchTemplate(templateId) ==
  LET template == getTemplateById(tpl.templates, templateId) IN
  /\ events < MaxEvents /\ events' = events + 1
  /\ tpl.confirm = <<>>
  /\ IF template = <<>>
       THEN UNCHANGED tpl /\ TplSessionFrame /\ TplOtherFrame /\ UNCHANGED toast
     ELSE IF isDirty(state, originalEditorValueRef)
       THEN /\ tpl' = [tpl EXCEPT !.confirm =
                         << [kind |-> "switch", template |-> template[1],
                             key |-> getKeyPairById(keyPairs, state.selectedKeyId),
                             save |-> <<>>] >>]
            /\ TplSessionFrame /\ TplOtherFrame /\ UNCHANGED toast
       ELSE /\ tpl' = [tpl EXCEPT !.sourceTemplateId = << template[1].id >>]
            /\ InputChangeCall(template[1].activationKey)

\* handleSaveTemplateClick
handleSaveTemplateClick ==
  LET notExpired == ~isJwtExpired(state.jwt, now)
      sourceTemplate == IF tpl.sourceTemplateId # <<>>
                          THEN getTemplateById(tpl.templates, tpl.sourceTemplateId[1])
                          ELSE <<>>
  IN /\ events < MaxEvents /\ events' = events + 1
     /\ tpl.confirm = <<>>
     /\ tpl' = [tpl EXCEPT !.showExpiryWarning = notExpired,
                           !.saveAsExpired = notExpired,
                           !.saveTemplateOpen = TRUE,
                           !.templateName = IF sourceTemplate # <<>>
                                              THEN sourceTemplate[1].name ELSE ""]
     /\ TplSessionFrame /\ TplOtherFrame /\ UNCHANGED toast

\* the name field of the save form
setTemplateName(name) ==
  /\ events < MaxEvents /\ events' = events + 1
  /\ tpl.confirm = <<>>
  /\ tpl.saveTemplateOpen
  /\ tpl' = [tpl EXCEPT !.templateName = name]
  /\ TplSessionFrame /\ TplOtherFrame /\ UNCHANGED toast

\* the "save as expired" checkbox, shown with the expiry warning
setSaveAsExpired(checked) ==
  /\ events < MaxEvents /\ events' = events + 1
  /\ tpl.confirm = <<>>
  /\ tpl.saveTemplateOpen /\ tpl.showExpiryWarning
  /\ tpl' = [tpl EXCEPT !.saveAsExpired = checked]
  /\ TplSessionFrame /\ TplOtherFrame /\ UNCHANGED toast

\* what handleSaveTemplate and getActivationKeyForTemplate hold of the render
\* in which the save button was clicked
SaveClosure ==
  LET trimmedName == trim(tpl.templateName) IN
  [name |-> trimmedName,
   existing |-> findTemplateByName(tpl.templates, trimmedName),
   sourceTemplateId |-> tpl.sourceTemplateId,
   jwt |-> state.jwt, editorValue |-> state.editorValue, algorithm |-> state.algorithm,
   key |-> getKeyPairById(keyPairs, state.selectedKeyId),
   saveAsExpired |-> tpl.saveAsExpired,
   expiredDate |-> 0]

\* "Save or update", then the reset of the save form
SaveCommit(t, c, activationKeyToSave) ==
  [t EXCEPT
     !.templates = IF c.existing # <<>>
                     THEN updateTemplate(@, c.existing[1].id, c.name, activationKeyToSave)
                     ELSE addTemplate(@, TemplateRec(t.nextId, c.name, activationKeyToSave)),
     !.nextId = IF c.existing # <<>> THEN @ ELSE @ + 1,
     !.saveTemplateOpen = FALSE,
     !.templateName = "",
     !.showExpiryWarning = FALSE,
     !.saveAsExpired = FALSE,
     !.last = [op |-> IF c.existing # <<>> THEN "update" ELSE "add",
               name |-> c.name, existing |-> c.existing, before |-> t.templates,
               atMs |-> c.expiredDate + DayMs,
               asExpired |-> c.saveAsExpired /\ ~isJwtExpired(c.jwt, c.expiredDate + DayMs),
               stored |-> << activationKeyToSave >>]]

\* a save that never signs an expired copy
SaveProceedAsIs(t, c) ==
  /\ tpl' = SaveCommit(t, [c EXCEPT !.expiredDate = now - DayMs], c.jwt)
  /\ UNCHANGED toast

\* handleSaveTemplate from getActivationKeyForTemplate on: the key is the
\* current one, or an error is shown, or the signer is started
SaveProceed(t, c) ==
  IF ~c.saveAsExpired \/ isJwtExpired(c.jwt, now)
    THEN /\ tpl' = SaveCommit(t, [c EXCEPT !.expiredDate = now - DayMs], c.jwt)
         /\ UNCHANGED toast
  ELSE IF c.key = <<>>
    THEN tpl' = t /\ toast' = showError(toast, NoSigningKeyMessage)
  ELSE IF JSONparseThrows(c.editorValue)
    THEN tpl' = t /\ toast' = showError(toast, InvalidJsonMessage)
  ELSE IF checkPrivateKeyThrows(c.key[1].privateKey)
    THEN tpl' = t /\ toast' = showError(toast, ExpiredKeyFailedMessage)
  ELSE /\ tpl' = [t EXCEPT !.saves = Append(@, [c EXCEPT !.expiredDate = now - DayMs])]
       /\ UNCHANGED toast

\* handleSaveTemplate up to `await confirm(...)`, or on to the key
handleSaveTemplate ==
  LET c == SaveClosure IN
  /\ events < MaxEvents /\ events' = events + 1
  /\ tpl.confirm = <<>>
  /\ tpl.saveTemplateOpen
  /\ Pending + Len(tpl.saves) < MaxPending
  /\ IF c.name = ""
       THEN UNCHANGED tpl /\ toast' = showError(toast, NoNameMessage)
     ELSE IF state.jwt = EmptyString
       THEN UNCHANGED tpl /\ toast' = showError(toast, NoKeyToSaveMessage)
     ELSE IF c.existing # <<>>
       THEN /\ tpl' = [tpl EXCEPT !.confirm =
                         << [kind |-> "save", template |-> c.existing[1], key |-> c.key,
                             save |-> <<c>>] >>]
            /\ UNCHANGED toast
     ELSE SaveProceed(tpl, c)
  /\ TplSessionFrame /\ TplOtherFrame

\* the operator answers the confirm dialog
handleConfirm(value) ==
  /\ events < MaxEvents /\ events' = events + 1
  /\ tpl.confirm # <<>>
  /\ LET c == tpl.confirm[1]
         closed == [tpl EXCEPT !.confirm = <<>>]
     IN IF ~value
          THEN tpl' = closed /\ TplSessionFrame /\ TplOtherFrame /\ UNCHANGED toast
        ELSE IF c.kind = "switch"
          THEN /\ tpl' = [closed EXCEPT !.sourceTemplateId = << c.template.id >>]
               /\ InputChangeWith(c.template.activationKey, c.key)
        ELSE SaveProceed(closed, c.save[1]) /\ TplSessionFrame /\ TplOtherFrame

\* signJWT of getActivationKeyForTemplate resolves; the template is saved
SaveSignComplete(i) ==
  /\ UNCHANGED events
  /\ microQ = <<>>
  /\ i \in 1..Len(tpl.saves)
  /\ LET c == tpl.saves[i]
         payload == SetMember(JSONparse(c.editorValue), "exp", Floor(c.expiredDate))
         r == signJWT(payload, c.algorithm, c.key, c.expiredDate, now)
         rest == [tpl EXCEPT !.saves = SubSeq(@, 1, i - 1) \o SubSeq(@, i + 1, Len(@))]
     IN IF r.ok
          THEN tpl' = SaveCommit(rest, c, r.token) /\ UNCHANGED toast
          ELSE tpl' = rest /\ toast' = showError(toast, ExpiredKeyFailedMessage)
  /\ TplSessionFrame /\ TplOtherFrame

TplInit ==
  /\ state = initialState
  /\ originalEditorValueRef = EmptyObjectText
  /\ keyPairs = <<>>
  /\ now = StartMs
  /\ microQ = <<>>
  /\ inflight = EmptyBag
  /\ toast = <<>>
  /\ emptyInputLast = FALSE
  /\ expiryPicked = FALSE
  /\ issuedPicked = FALSE
  /\ events = 0
  /\ codec = CodecIdle
  /\ store = StoreIdle
  /\ loadedText = <<>>
  /\ crud = CrudIdle
  /\ \E m \in {<<>>} \cup {<<id>> : id \in MarkerIds} :
       tpl = [TplIdle EXCEPT !.marker = m, !.opened = IF m = <<>> THEN 0 ELSE 1]

TplNext ==
  \/ LoadKeyPairs
  \/ TemplatesLoad
  \/ PendingEffectRerun
  \/ \E id \in MarkerIds : loadInEditor(id)
  \/ \E id \in MarkerIds : handleSwitchTemplate(id)
  \/ \E value \in BOOLEAN : handleConfirm(value)
  \/ handleSaveTemplateClick
  \/ \E name \in TemplateNames : setTemplateName(name)
  \/ \E checked \in BOOLEAN : setSaveAsExpired(checked)
  \/ handleSaveTemplate
  \/ \E i \in 1..MaxPending : SaveSignComplete(i)
  \/ InputContinuation
  \/ ValidationMicrotask
  \/ \E o \in BagToSet(inflight) : VerifyComplete(o)
  \/ \E text \in EditorTexts : (tpl.confirm = <<>> /\ SetEditorValue(text))
  \/ (tpl.confirm = <<>> /\ ClearJwt)
  \/ Tick

SpecTemplates == TplInit /\ [][TplNext]_vars

\* ------------------------------------------------ store instances at work
Call(op, i, id, name, quotaOk) ==
  [op |-> op, inst |-> i, id |-> id, name |-> name, before |-> store.inst[i].items,
   beforeStorage |-> store.storage, quotaOk |-> quotaOk, seededBefore |-> store.seeded]

\* the mount effect of instance i
StoreLoad(i) ==
  /\ ~store.inst[i].mounted
  /\ \E quotaOk \in BOOLEAN :
       LET r == loadEffect(store.storage, store.defaults, quotaOk) IN
       store' = [store EXCEPT
                   !.storage = r.storage,
                   !.inst[i] = [mounted |-> TRUE, items |-> r.items, error |-> r.error,
                                loadedFrom |-> store.storage.kind],
                   !.seeded = (@ \/ (r.storage # store.storage)),
                   !.written = IF r.storage # store.storage
                                 THEN [inst |-> i, items |-> r.items] ELSE @,
                   !.last = Call("load", i, 0, "", quotaOk)]
  /\ UNCHANGED <<state, originalEditorValueRef, keyPairs, now, microQ, inflight, toast,
                 emptyInputLast, expiryPicked, issuedPicked, events, codec, loadedText, crud, tpl>>

\* a mutating call that persists the collection before updating it
MutatePersistsFirst(i, op, id, name, updated, quotaOk) ==
  LET w == persist(store.storage, store.inst[i].error, store.inst[i].items, quotaOk) IN
  /\ store.inst[i].mounted
  /\ store.ops < MaxStoreOps
  /\ store' = [store EXCEPT
                 !.storage = w.storage,
                 !.inst[i].items = updated,
                 !.inst[i].error = w.error,
                 !.written = IF quotaOk THEN [inst |-> i, items |-> store.inst[i].items] ELSE @,
                 !.nextId = IF op = "add" THEN @ + 1 ELSE @,
                 !.ops = @ + 1,
                 !.last = Call(op, i, id, name, quotaOk)]
  /\ UNCHANGED <<state, originalEditorValueRef, keyPairs, now, microQ, inflight, toast,
                 emptyInputLast, expiryPicked, issuedPicked, events, codec, loadedText, crud, tpl>>

\* a mutating call of instance i: setItems(prev => { ...; persist(updated); return updated })
Mutate(i, op, id, name, updated, quotaOk) ==
  LET w == persist(store.storage, store.inst[i].error, updated, quotaOk) IN
  /\ store.inst[i].mounted
  /\ store.ops < MaxStoreOps
  /\ store' = [store EXCEPT
                 !.storage = w.storage,
                 !.inst[i].items = updated,
                 !.inst[i].error = w.error,
                 !.written = IF quotaOk THEN [inst |-> i, items |-> updated] ELSE @,
                 !.nextId = IF op = "add" THEN @ + 1 ELSE @,
                 !.ops = @ + 1,
                 !.last = Call(op, i, id, name, quotaOk)]
  /\ UNCHANGED <<state, originalEditorValueRef, keyPairs, now, microQ, inflight, toast,
                 emptyInputLast, expiryPicked, issuedPicked, events, codec, loadedText, crud, tpl>>

StoreAdd(i, name) ==
  \E quotaOk \in BOOLEAN :
    Mutate(i, "add", store.nextId, name,
           addItems(store.inst[i].items, newItemOf(name, store.nextId, now)), quotaOk)

StoreUpdate(i, id, name) ==
  \E quotaOk \in BOOLEAN :
    Mutate(i, "update", id, name, updateItems(store.inst[i].items, id, name), quotaOk)

StoreRemove(i, id) ==
  \E quotaOk \in BOOLEAN :
    Mutate(i, "remove", id, "", removeItems(store.inst[i].items, id), quotaOk)

\* ids a caller may name: every id that was ever in use and one that never was
StoreIds == {0, 90} \cup (1..store.nextId)

StoreInit ==
  /\ state = initialState
  /\ originalEditorValueRef = EmptyObjectText
  /\ keyPairs = <<>>
  /\ now = StartMs
  /\ microQ = <<>>
  /\ inflight = EmptyBag
  /\ toast = <<>>
  /\ emptyInputLast = FALSE
  /\ expiryPicked = FALSE
  /\ issuedPicked = FALSE
  /\ events = 0
  /\ loadedText = <<>>
  /\ crud = CrudIdle
  /\ tpl = TplIdle
  /\ codec = CodecIdle
  /\ \E st \in InitialStorages, d \in DefaultSets :
       store = [StoreIdle EXCEPT !.storage = st, !.defaults = d]

StoreNext ==
  \/ \E i \in Instances : StoreLoad(i)
  \/ \E i \in Instances, name \in ItemNames : StoreAdd(i, name)
  \/ \E i \in Instances, id \in StoreIds, name \in UpdateNames : StoreUpdate(i, id, name)
  \/ \E i \in Instances, id \in StoreIds : StoreRemove(i, id)

SpecStore == StoreInit /\ [][StoreNext]_vars

\* ================================================================ claims
CurrentKey == getKeyPairById(keyPairs, state.selectedKeyId)
Times == {t \in {StartMs + i * TickMs : i \in 0..MaxTicks} : t <= now}
QueueHas(kind) == \E i \in 1..Len(microQ) : microQ[i].op = kind
InflightHas(kind) == \E o \in BagToSet(inflight) : o.op = kind
SignCommitted(o) ==
  SignComplete(o) /\ signJWT(o.payload, o.algorithm, o.key, o.expiry, now).ok
CorrectlySigned(t, k) ==
  /\ t.kind = "jwt" /\ t.intact /\ t.alg \in SUPPORTED_ALGORITHMS
  /\ k # <<>> /\ k[1].publicKey.header = "PUBLIC KEY"
  /\ t.signedBy = k[1].publicKey.material

\* C1: a verification result is applied to the session only if it is the
\* result for the pair (loaded token, selected key) the session has when the
\* verification resolves; a result computed for another pair is discarded.
C1_StaleVerificationDiscarded ==
  [][ (state.jwt # EmptyString /\ state'.validation # state.validation
                               /\ state'.validation # <<>>)
        => state'.validation = << validateJWTSignature(state.jwt, CurrentKey, now) >> ]_vars

\* C2: once no verification is outstanding, the validation result of a
\* loaded session is verify(current token, currently selected key).
C2_ValidationIsOfCurrentPair ==
  ( /\ state.jwt # EmptyString
    /\ ~QueueHas("input") /\ ~QueueHas("validation") /\ ~InflightHas("verify") )
  => \E t \in Times : state.validation = << validateJWTSignature(state.jwt, CurrentKey, t) >>

\* C3: a correctly signed token whose exp lies in the past verifies as
\* {isValid: true, error: null}.
C3_ExpiredTokenStillValid ==
  ( /\ codec.pc = "verified"
    /\ CorrectlySigned(codec.token, codec.keyPair)
    /\ Has(codec.token.payload, "exp")
    /\ Get(codec.token.payload, "exp") * MsPerSecond < codec.verifiedAt )
  => codec.result = << Valid >>

\* C4: verify(sign(P, A, K, expiry), K).isValid for every payload, supported
\* algorithm, generated key pair and expiry instant, past or future.
C4_SignThenVerifyIsValid ==
  (codec.pc = "verified" /\ codec.signedAt # 0 /\ codec.keyPair[1] \in CodecKeys)
    => codec.result[1].isValid

\* C5: a sign that completes after the session's token was cleared or
\* replaced does not commit: token and payload text stay as they are.
C5_StaleSignDoesNotCommit ==
  [][ \A o \in BagToSet(inflight) :
        (SignComplete(o) /\ o.basis.sessionJwt # state.jwt)
          => (state'.jwt = state.jwt /\ state'.editorValue = state.editorValue) ]_vars

C7_SignClearsDirty ==
  [][ (\E o \in BagToSet(inflight) : SignCommitted(o))
        => ~isDirty(state', originalEditorValueRef') ]_vars

\* C8: when the operator picked no expiry date, the signed token's exp is
\* the exp of the payload text, or the signing time if the text has none.
C8_UnpickedExpiryKeepsPayloadExp ==
  [][ \A o \in BagToSet(inflight) :
        (SignCommitted(o) /\ ~o.basis.expiryPicked)
          => Get(state'.jwt.payload, "exp") =
               IF Has(o.basis.text, "exp") THEN Get(o.basis.text, "exp")
                                           ELSE Floor(o.basis.calledAt) ]_vars

\* C9: when the operator picked an issued date, the signed token's iat is
\* that date in whole seconds.
C9_PickedIssuedDateIsIat ==
  [][ \A o \in BagToSet(inflight) :
        (SignCommitted(o) /\ o.basis.issuedPicked)
          => Get(state'.jwt.payload, "iat") = Floor(o.basis.issuedDate[1]) ]_vars

\* C10: when no issued date override is set, the signed token's iat is the
\* iat of the payload text.
C10_PayloadIatPreserved ==
  [][ \A o \in BagToSet(inflight) :
        (SignCommitted(o) /\ o.basis.issuedDate = <<>> /\ Has(o.basis.text, "iat"))
          => Get(state'.jwt.payload, "iat") = Get(o.basis.text, "iat") ]_vars

\* C11: every sign() that produces no new token surfaces an error: the call
\* either starts the signer or shows an error, and a signer that ends
\* without a token shows an error.
C11_SignNeverSilent ==
  [][ /\ HandleSign => (Pending' > Pending \/ Len(toast') > Len(toast))
      /\ SignFailedMicrotask => Len(toast') > Len(toast)
      /\ \A o \in BagToSet(inflight) :
            SignComplete(o) => (SignCommitted(o) \/ Len(toast') > Len(toast)) ]_vars

\* C12: a sign() that fails (the payload text is not JSON, or the signer
\* rejects) leaves the session state exactly as it was.
C12_FailedSignKeepsState ==
  [][ Len(toast') > Len(toast) => state' = state ]_vars
C12_Witness ==
  /\ \E i \in 1..Len(toast) : toast[i] = InvalidJsonMessage
  /\ \E i \in 1..Len(toast) : toast[i] = SignFailedMessage

\* C13: signing with a key pair whose private key is in SEC1 form reports to
\* the operator the error that names the PKCS8 conversion.
C13_Sec1ErrorNamesPkcs8 ==
  [][ ( /\ SignFailedMicrotask
        /\ Head(microQ).key # <<>>
        /\ checkPrivateKeyThrows(Head(microQ).key[1].privateKey) )
      => toast'[Len(toast')] = Sec1Message ]_vars

\* C14: clear() empties the session and the selected key id after it is the
\* selected key id before it.
C14_ClearKeepsSelectedKey ==
  [][ ClearJwt => ( /\ state'.jwt = EmptyString
                    /\ state'.editorValue = EmptyObjectText
                    /\ state'.validation = <<>>
                    /\ state'.expiryDate = <<>> /\ state'.issuedDate = <<>>
                    /\ state'.selectedKeyId = state.selectedKeyId ) ]_vars

\* ------------------------------------------------------- store claims
LastCall == store.last
LastInst == store.inst[store.last.inst]
IsMutation(c) == c.op \in {"add", "update", "remove"}
findById(items, id) == getKeyPairById(items, id)
UnreadableKinds == {"notjson", "notarray"}

\* C15: a load() that happens after the defaults were seeded does not write
\* the defaults again and does not bring them back: storage keeps its
\* content and the collection is what storage holds.
C15_DefaultsSeededOnce ==
  (LastCall.op = "load" /\ LastCall.seededBefore /\ LastCall.quotaOk)
    => /\ store.storage = LastCall.beforeStorage
       /\ LastInst.items = LastCall.beforeStorage.items

\* C16: load() on storage that is unreadable or holds non-array data gives
\* the collection and the stored content of load() on missing storage
\* (defaults seeded when configured), and the add that follows leaves in
\* storage the array of the seeded defaults followed by the new record.
C16_UnreadableStorageIsEmpty ==
  /\ (LastCall.op = "load" /\ LastCall.quotaOk /\ LastCall.beforeStorage.kind \in UnreadableKinds)
       => LET m == loadEffect(StorageMissing, store.defaults, TRUE) IN
            /\ LastInst.items = m.items
            /\ (store.defaults # <<>> => store.storage = m.storage)
  /\ (LastCall.op = "add" /\ LastCall.quotaOk /\ LastInst.loadedFrom \in UnreadableKinds
        /\ LastCall.before = store.defaults)
       => /\ store.storage.kind = "array"
          /\ Len(store.storage.items) = Len(store.defaults) + 1
          /\ SubSeq(store.storage.items, 1, Len(store.defaults)) = store.defaults
          /\ store.storage.items[Len(store.storage.items)].id = LastCall.id

\* C17: when the persist of an add, update or remove fails, the store's
\* error is non-null, the in-memory collection has the mutation, and storage
\* keeps its previous content.
C17_FailedPersistKeepsMutation ==
  (IsMutation(LastCall) /\ ~LastCall.quotaOk)
    => /\ LastInst.error # <<>>
       /\ store.storage = LastCall.beforeStorage
       /\ LastCall.op = "add" =>
            /\ Len(LastInst.items) = Len(LastCall.before) + 1
            /\ LastInst.items[Len(LastInst.items)].id = LastCall.id
       /\ LastCall.op = "remove" => findById(LastInst.items, LastCall.id) = <<>>
       /\ LastCall.op = "update" =>
            \A j \in 1..Len(LastInst.items) :
              LastInst.items[j].id = LastCall.id => LastInst.items[j].name = LastCall.name
C17_Witness ==
  /\ LastCall.op = "add" /\ ~LastCall.quotaOk
  /\ LastCall.beforeStorage.kind = "array"
  /\ Len(LastInst.items) > Len(store.storage.items)

\* C18: storage holds exactly the collection written by the last successful
\* persist, whichever instance made it (the whole collection, not a merge),
\* and an instance that reads storage afterwards gets every stored record.
C18_LastWriteWins ==
  /\ store.written.inst # 0 => store.storage = stringifyItems(store.written.items)
  /\ (IsMutation(LastCall) /\ LastCall.quotaOk)
       => store.storage = stringifyItems(LastInst.items)
  /\ (LastCall.op = "load" /\ isNonEmptyArray(LastCall.beforeStorage))
       => LastInst.items = LastCall.beforeStorage.items
C18_Witness ==
  /\ LastCall.op = "load" /\ LastCall.inst = 2
  /\ store.written.inst = 1
  /\ store.inst[1].mounted
  /\ \E j \in 1..Len(LastInst.items) : LastInst.items[j].id = 1

\* C19: add appends one new record with the input fields, a fresh id and a
\* createdAt timestamp; earlier records keep their order; findById of the
\* returned id yields the record.
C19_AddAppends ==
  LastCall.op = "add"
    => LET items == LastInst.items
           n == Len(LastCall.before)
       IN /\ Len(items) = n + 1
          /\ SubSeq(items, 1, n) = LastCall.before
          /\ items[n + 1] = [id |-> LastCall.id, createdAt |-> now, name |-> LastCall.name]
          /\ \A j \in 1..n : LastCall.before[j].id # LastCall.id
          /\ findById(items, LastCall.id) = << items[n + 1] >>
C19_Witness ==
  /\ LastCall.op = "add"
  /\ Len(LastCall.before) >= 2
  /\ LastInst.loadedFrom = "array"

\* C20: after remove(id), findById(id) is absent and every other record is
\* still there, unchanged and in the same relative order.
C20_RemoveKeepsOthers ==
  LastCall.op = "remove"
    => /\ findById(LastInst.items, LastCall.id) = <<>>
       /\ LastInst.items = SelectSeq(LastCall.before, LAMBDA r : r.id # LastCall.id)
C20_Witness ==
  /\ LastCall.op = "remove"
  /\ Len(LastCall.before) >= 2
  /\ findById(LastCall.before, LastCall.id) # <<>>

\* C21: update(id, ...) and remove(id) with an id that is not in the
\* collection leave the in-memory collection, the error and the stored
\* collection exactly as they were.
C21_AbsentIdIsNoOp ==
  ( /\ LastCall.op \in {"update", "remove"}
    /\ findById(LastCall.before, LastCall.id) = <<>>
    /\ LastCall.quotaOk
    /\ LastCall.beforeStorage.kind = "array" )
    => /\ LastInst.items = LastCall.before
       /\ store.storage = LastCall.beforeStorage

\* C22: the dirty flag is false whenever no token is loaded (so after
\* clear() too) and, while a token is loaded, it is true exactly when the
\* current payload text differs from the payload text captured at the most
\* recent successful load (so it is false right after a load completes).
C22_DirtyAgainstLatestLoad ==
  /\ state.jwt = EmptyString => ~isDirty(state, originalEditorValueRef)
  /\ (state.jwt # EmptyString /\ loadedText # <<>>)
       => (isDirty(state, originalEditorValueRef) <=> state.editorValue # loadedText[1])

\* C23: there is no error state.  The continuation of setInput(text) with a
\* non-empty text loads that text as the current token; for a malformed text
\* the payload text is '{}' and the metadata null.  The validation of such a
\* token is a result with isValid false and an error, and while it is loaded
\* setInput, selectKey, sign and clear can all still be taken.
C23_NoErrorState ==
  /\ [][ InputContinuation
           => /\ state'.jwt = Head(microQ).jwt
              /\ state'.jwt # EmptyString
              /\ Head(microQ).jwt.kind # "jwt"
                   => /\ state'.editorValue = EmptyObjectText
                      /\ getJwtMetadata(state'.jwt) = <<>> ]_vars
  /\ [][ (ValidationMicrotask /\ Head(microQ).jwt.kind # "jwt")
           => /\ state'.validation # <<>>
              /\ ~state'.validation[1].isValid
              /\ state'.validation[1].error # <<>> ]_vars
  /\ [] ( ( /\ state.jwt = MalformedToken
            /\ events < MaxEvents
            /\ Pending < MaxPending )
          => /\ \A value \in InputTokens : ENABLED HandleInputChange(value)
             /\ \A i \in 1..Len(keyPairs) : ENABLED SelectKey(keyPairs[i].id)
             /\ ENABLED HandleSign
             /\ ENABLED ClearJwt )
\* witness: a malformed token is loaded with payload text '{}', its validation
\* failed, and a sign started after it is outstanding
C23_Witness ==
  /\ state.jwt = MalformedToken
  /\ state.editorValue = EmptyObjectText
  /\ state.validation # <<>>
  /\ ~state.validation[1].isValid
  /\ \E o \in BagToSet(inflight) : o.op = "sign" /\ o.basis.sessionJwt = MalformedToken

\* C24: selectKey(id) changes only the selected key id: the loaded token, the
\* payload text, the algorithm and the expiry / issued overrides are after it
\* what they were before it.
C24_SelectKeyFrame ==
  [][ (\E id \in {"k1", "k2"} : SelectKey(id))
        => /\ state'.jwt = state.jwt
           /\ state'.editorValue = state.editorValue
           /\ state'.algorithm = state.algorithm
           /\ state'.expiryDate = state.expiryDate
           /\ state'.issuedDate = state.issuedDate
           /\ state'.inputValue = state.inputValue
           /\ originalEditorValueRef' = originalEditorValueRef ]_vars
\* witness: with an edited token loaded and both overrides picked, the other
\* key pair is selected
C24_Witness ==
  /\ state.selectedKeyId = "k2"
  /\ state.jwt = TokenA
  /\ state.editorValue = EditedText
  /\ state.expiryDate = <<StartMs + TickMs>>
  /\ expiryPicked

\* C25: setPayloadText, setExpiry and setIssued are local updates: each changes
\* only its own field of the session, starts no verification, and leaves the
\* current token and the validation result as they were.
C25_LocalUpdatesFrame ==
  [][ /\ (\E text \in EditorTexts : SetEditorValue(text))
           => /\ state' = [state EXCEPT !.editorValue = state'.editorValue]
              /\ microQ' = microQ /\ inflight' = inflight
      /\ (\E d \in PickDates : SetExpiryDate(d))
           => /\ state' = [state EXCEPT !.expiryDate = state'.expiryDate]
              /\ microQ' = microQ /\ inflight' = inflight
      /\ (\E d \in PickDates : SetIssuedDate(d))
           => /\ state' = [state EXCEPT !.issuedDate = state'.issuedDate]
              /\ microQ' = microQ /\ inflight' = inflight ]_vars
\* witness: a verified token is loaded with a key selected, its payload text
\* was edited and both dates were picked, and nothing is pending
C25_Witness ==
  /\ state.jwt = TokenA
  /\ state.selectedKeyId # ""
  /\ state.validation # <<>>
  /\ state.editorValue = EditedText
  /\ expiryPicked /\ issuedPicked
  /\ Pending = 0

\* C26: the session's algorithm is always in the supported set: the
\* continuation of setInput adopts the token's header algorithm when it is
\* supported and otherwise leaves the algorithm as it was, and it changes the
\* issued / expiry instants only when the token has the claim, to the claim's
\* instant.
C26_AlgorithmSupported ==
  /\ [] (state.algorithm \in SUPPORTED_ALGORITHMS)
  /\ [][ InputContinuation
           => LET t == Head(microQ).jwt IN
              /\ state'.algorithm = IF t.kind = "jwt" /\ t.alg \in SUPPORTED_ALGORITHMS
                                      THEN t.alg ELSE state.algorithm
              /\ state'.expiryDate # state.expiryDate
                   => /\ t.kind = "jwt" /\ Has(t.payload, "exp")
                      /\ state'.expiryDate = << Get(t.payload, "exp") * MsPerSecond >>
              /\ state'.issuedDate # state.issuedDate
                   => /\ t.kind = "jwt" /\ Has(t.payload, "iat")
                      /\ state'.issuedDate = << Get(t.payload, "iat") * MsPerSecond >> ]_vars
\* witness: a token with an unsupported algorithm and no dates is loaded after
\* a token with both dates; the session keeps ES512 and the earlier dates
C26_Witness ==
  /\ state.jwt = TokenOtherAlg
  /\ state.algorithm = "ES512"
  /\ state.expiryDate = << Get(TokenA.payload, "exp") * MsPerSecond >>
  /\ state.issuedDate = << Get(TokenA.payload, "iat") * MsPerSecond >>

\* C27: verify always returns a well-formed result: isValid is true exactly
\* when error is null; with no key pair it is the 'no matching key' failure,
\* which is not the signature-mismatch message; a token that is malformed,
\* or for which the key is not the signer's importable key, is invalid with
\* an error.
C27_VerifyTotalWellFormed ==
  codec.pc = "verified"
    => LET r == codec.result[1] IN
       /\ r.isValid <=> (r.error = <<>>)
       /\ codec.keyPair = <<>>
            => (~r.isValid /\ r.error = <<NoKeyMessage>> /\ r.error # <<SignatureFailedMessage>>)
       /\ ~CorrectlySigned(codec.token, codec.keyPair) => (~r.isValid /\ r.error # <<>>)
C27_Witness ==
  /\ codec.pc = "verified"
  /\ codec.keyPair = <<>>
  /\ codec.token = MalformedToken

\* C28: for a well-formed token the metadata has issuedAt / expiresAt equal
\* to the claim times 1000 whenever the claim is present, 0 included, null
\* only when it is absent, and algorithm the header's alg or null.
C28_MetadataOfEveryClaimValue ==
  (codec.read # <<>> /\ codec.token.kind = "jwt")
    => LET m == codec.read[1].metadata
           p == codec.token.payload
       IN /\ m # <<>>
          /\ m[1].issuedAt = IF Has(p, "iat") THEN <<Get(p, "iat") * MsPerSecond>> ELSE <<>>
          /\ m[1].expiresAt = IF Has(p, "exp") THEN <<Get(p, "exp") * MsPerSecond>> ELSE <<>>
          /\ m[1].algorithm = IF codec.token.alg # "" THEN <<codec.token.alg>> ELSE <<>>

\* C29: the metadata of a token made by sign with expiry E has expiresAt
\* equal to E truncated to whole seconds.
C29_ExpiresAtRoundTrip ==
  (codec.read # <<>> /\ codec.pc \in {"signed", "verified"} /\ codec.signedAt # 0)
    => /\ codec.read[1].metadata # <<>>
       /\ codec.read[1].metadata[1].expiresAt = << Floor(codec.expiry) * MsPerSecond >>

\* C30: for a token text that is no three-segment token, decode returns the
\* empty object text and the metadata is null.
C30_DecodeFailuresAbsorbed ==
  (codec.read # <<>> /\ codec.token.kind # "jwt")
    => /\ codec.read[1].decoded = EmptyObjectText
       /\ codec.read[1].metadata = <<>>
C30_Witness ==
  /\ codec.read # <<>>
  /\ codec.token = MalformedToken

\* C35: in a session driven by setInput, selectKey, sign and clear, whenever
\* no token is loaded the validation result is null, the payload text is '{}'
\* and no expiry / issued override is set.
C35_EmptyIsClean ==
  state.jwt = EmptyString
    => /\ state.validation = <<>>
       /\ state.editorValue = EmptyObjectText
       /\ state.expiryDate = <<>>
       /\ state.issuedDate = <<>>

\* C37: once the key pair collection is non-empty the selected key id names a
\* key pair of the collection: the load of the key pairs selects the first
\* pair when none is selected, and no sign called after it finds the session
\* without a selected key pair.
C37_InitialKeySelected ==
  /\ [] ( keyPairs # <<>>
            => \E i \in 1..Len(keyPairs) : keyPairs[i].id = state.selectedKeyId )
  /\ [][ (LoadKeyPairs /\ state.selectedKeyId = "")
           => state'.selectedKeyId = keyPairs'[1].id ]_vars
  /\ [][ (HandleSign /\ keyPairs # <<>>)
           => (toast' # toast \/ microQ' # microQ \/ inflight' # inflight) ]_vars
\* witness: the key pairs are loaded, the first is the selected one, and a sign
\* with it is outstanding
C37_Witness ==
  /\ keyPairs # <<>>
  /\ state.selectedKeyId = keyPairs[1].id
  /\ \E o \in BagToSet(inflight) : o.op = "sign" /\ o.key = <<keyPairs[1]>>

\* C36: while one store instance alone works on the storage key, after an
\* add, update or remove whose persist succeeded the content of storage is
\* the JSON serialization of that instance's in-memory collection: the same
\* records in the same order.
C36_StorageIsCollection ==
  ( /\ IsMutation(LastCall)
    /\ LastCall.quotaOk
    /\ \A j \in Instances \ {LastCall.inst} : ~store.inst[j].mounted )
    => /\ store.storage.kind = "array"
       /\ store.storage.items = LastInst.items
       /\ store.storage = stringifyItems(LastInst.items)
\* witness: the only mounted instance made an add whose persist failed and then
\* a remove whose persist succeeded
C36_Witness ==
  /\ LastCall.op = "remove" /\ LastCall.quotaOk
  /\ \A j \in Instances \ {LastCall.inst} : ~store.inst[j].mounted
  /\ store.ops = MaxStoreOps
  /\ LastInst.error # <<>>
  /\ Len(LastInst.items) < Len(LastCall.before)
  /\ LastInst.items # <<>>

\* C38: in the CRUD form state adding a new item and editing an existing item
\* exclude each other: isAddingNew is never true while editingId is non-null,
\* and editingId is null exactly when editingItem is null.
C38_AddingExcludesEditing ==
  /\ ~(crud.isAddingNew /\ crud.editingId # <<>>)
  /\ (crud.editingId = <<>>) <=> (crud.editingItem = <<>>)

\* ---------------------------------------------------- template claims
LastSave == tpl.last
SameName(a, b) == toLowerCase(a) = toLowerCase(b)
NamesDistinct(templates) ==
  \A i, j \in 1..Len(templates) : SameName(templates[i].name, templates[j].name) => i = j

\* C32: save-as-template never leaves two templates with the same name
\* (compared case-insensitively): a save under an existing name updates that
\* record in place, after the operator confirmed, and a save with an empty
\* name, with no token loaded, declined by the operator or without a key to
\* store leaves the collection unchanged.
C32_SaveKeepsNamesDistinct ==
  /\ [] NamesDistinct(tpl.templates)
  /\ [][ (tpl.loaded /\ tpl'.templates # tpl.templates)
           => /\ tpl.confirm = <<>> \/ tpl.confirm[1].kind = "save"
              /\ tpl'.last.name # ""
              /\ tpl'.last.stored # << EmptyString >>
              /\ findTemplateByName(tpl.templates, tpl'.last.name) # <<>>
                   => /\ Len(tpl'.templates) = Len(tpl.templates)
                      /\ tpl'.templates =
                           updateTemplate(tpl.templates,
                                          findTemplateByName(tpl.templates, tpl'.last.name)[1].id,
                                          tpl'.last.name, tpl'.last.stored[1])
                      /\ tpl.confirm # <<>> \/ tpl.saves # tpl'.saves ]_vars
  /\ [][ (\E value \in BOOLEAN : handleConfirm(value)) /\ tpl'.templates # tpl.templates
           => handleConfirm(TRUE) ]_vars

\* C31: switching template on a dirty session asks first: the call itself
\* loads nothing; if the operator declines, the token, payload text,
\* overrides, validation and source template id are as before; if the
\* operator confirms, the template is recorded as the source and its
\* activation key is given to setInput.  On a session that is not dirty the
\* switch does that at once, without asking.
C31_DirtySwitchAsksFirst ==
  /\ [][ \A id \in MarkerIds :
           (handleSwitchTemplate(id) /\ getTemplateById(tpl.templates, id) # <<>>)
             => LET template == getTemplateById(tpl.templates, id)[1] IN
                IF isDirty(state, originalEditorValueRef)
                  THEN /\ tpl'.confirm # <<>> /\ tpl'.confirm[1].kind = "switch"
                       /\ state' = state
                       /\ originalEditorValueRef' = originalEditorValueRef
                       /\ microQ' = microQ /\ inflight' = inflight
                       /\ tpl'.sourceTemplateId = tpl.sourceTemplateId
                  ELSE /\ tpl'.confirm = <<>>
                       /\ tpl'.sourceTemplateId = <<id>>
                       /\ Len(microQ') = Len(microQ) + 1
                       /\ microQ'[Len(microQ')].op = "input"
                       /\ microQ'[Len(microQ')].jwt = template.activationKey ]_vars
  /\ [][ (tpl.confirm # <<>> /\ tpl.confirm[1].kind = "switch")
           => /\ handleConfirm(FALSE)
                   => /\ state' = state
                      /\ originalEditorValueRef' = originalEditorValueRef
                      /\ microQ' = microQ /\ inflight' = inflight
                      /\ tpl'.sourceTemplateId = tpl.sourceTemplateId
                      /\ tpl'.confirm = <<>>
              /\ handleConfirm(TRUE)
                   => /\ tpl'.sourceTemplateId = << tpl.confirm[1].template.id >>
                      /\ microQ'[Len(microQ')].op = "input"
                      /\ microQ'[Len(microQ')].jwt = tpl.confirm[1].template.activationKey ]_vars
\* witness: the dialog of a switch is open on a dirty session that came from
\* the other template
C31_Witness ==
  /\ tpl.confirm # <<>>
  /\ tpl.confirm[1].kind = "switch"
  /\ isDirty(state, originalEditorValueRef)
  /\ tpl.sourceTemplateId # <<>>
  /\ tpl.sourceTemplateId # << tpl.confirm[1].template.id >>

\* the steps of a save: the click on the save button, the answer to its
\* confirmation, the completion of its signing
SaveStep ==
  \/ handleSaveTemplate
  \/ (tpl.confirm # <<>> /\ tpl.confirm[1].kind = "save"
        /\ \E value \in BOOLEAN : handleConfirm(value))
  \/ \E i \in 1..MaxPending : SaveSignComplete(i)

\* the token and the option of the save that a step carries on: those of the
\* render in which the save button was clicked
SavedFrom ==
  IF Len(tpl'.saves) < Len(tpl.saves)
    THEN CHOOSE c \in {tpl.saves[i] : i \in 1..Len(tpl.saves)} :
           \E i \in 1..Len(tpl.saves) :
             /\ tpl.saves[i] = c
             /\ tpl'.saves = SubSeq(tpl.saves, 1, i - 1) \o SubSeq(tpl.saves, i + 1, Len(tpl.saves))
  ELSE IF tpl.confirm # <<>> THEN tpl.confirm[1].save[1]
    ELSE [jwt |-> state.jwt, saveAsExpired |-> tpl.saveAsExpired, expiredDate |-> now - DayMs]

\* C33: a save with "save as expired" on a token that is not expired stores
\* a newly signed token whose exp is 24 hours before the time at which the
\* save asked for the key, so the stored token is expired; with the option
\* off or the token already expired, the token the session had when the save
\* button was clicked is stored as it is.  No step of a save changes the
\* session's token, payload text or validation.
C33_SaveAsExpired ==
  /\ [][ SaveStep => /\ state'.jwt = state.jwt
                      /\ state'.editorValue = state.editorValue
                      /\ state'.validation = state.validation ]_vars
  /\ [][ (SaveStep /\ tpl'.last # tpl.last)
           => LET stored == tpl'.last.stored[1]
                  signing == \E i \in 1..MaxPending : SaveSignComplete(i)
                  askedAt == IF signing THEN SavedFrom.expiredDate + DayMs ELSE now
              IN IF SavedFrom.saveAsExpired /\ ~isJwtExpired(SavedFrom.jwt, askedAt)
                   THEN /\ signing
                        /\ stored.kind = "jwt"
                        /\ stored.intact
                        /\ stored # SavedFrom.jwt
                        /\ Has(stored.payload, "exp")
                        /\ Get(stored.payload, "exp") = Floor(askedAt - DayMs)
                        /\ isJwtExpired(stored, askedAt)
                        /\ askedAt <= now
                   ELSE /\ ~signing
                        /\ stored = SavedFrom.jwt ]_vars
\* witness: a template holds an expired token signed by the save, while the
\* session's own token is not expired
C33_Witness ==
  /\ tpl.last.op # "none"
  /\ tpl.last.asExpired
  /\ tpl.last.stored # << state.jwt >>
  /\ isJwtExpired(tpl.last.stored[1], now)
  /\ ~isJwtExpired(state.jwt, now)
  /\ state.jwt # EmptyString
  /\ \E i \in 1..Len(tpl.templates) : tpl.templates[i].activationKey = tpl.last.stored[1]

\* a run of the pending-template effect
HandOffEffect == TemplatesLoad \/ PendingEffectRerun

\* C34: when the effect runs with templates loaded and the marker names one
\* of them, that template's activation key is given to setInput, the template
\* is recorded as the source and the marker is removed; a run with no marker,
\* or with a marker that names no template, loads nothing and leaves the
\* marker.  Nothing but the effect removes a marker, the marker of a missing
\* template is only ever replaced by another "open in editor", and there are
\* never more loads than hand-offs.
C34_HandOffLoadsOnce ==
  /\ [][ HandOffEffect
           => LET found == IF tpl.marker # <<>>
                             THEN getTemplateById(tpl'.templates, tpl.marker[1])
                             ELSE <<>>
              IN IF found # <<>>
                   THEN /\ tpl'.marker = <<>>
                        /\ tpl'.sourceTemplateId = tpl.marker
                        /\ state'.inputValue = found[1].activationKey
                        /\ Len(microQ') = Len(microQ) + 1
                        /\ microQ'[Len(microQ')].op = "input"
                        /\ microQ'[Len(microQ')].jwt = found[1].activationKey
                        /\ tpl'.handoffs = tpl.handoffs + 1
                   ELSE /\ tpl'.marker = tpl.marker
                        /\ tpl'.sourceTemplateId = tpl.sourceTemplateId
                        /\ state' = state
                        /\ microQ' = microQ /\ inflight' = inflight
                        /\ tpl'.handoffs = tpl.handoffs ]_vars
  /\ [][ tpl'.marker # tpl.marker
           => \/ HandOffEffect /\ tpl'.marker = <<>>
              \/ \E id \in MarkerIds : loadInEditor(id) /\ tpl'.marker = <<id>> ]_vars
  /\ [][ (tpl.marker # <<>> /\ getTemplateById(StoredTemplates, tpl.marker[1]) = <<>>)
           => tpl'.marker = tpl.marker \/ \E id \in MarkerIds : loadInEditor(id) ]_vars
  /\ [] (tpl.handoffs <= tpl.opened)
\* witness: the marker of template 1 was consumed, template 1 is the source
\* and its activation key is the session's token, and a later "open in
\* editor" of a missing template left a marker that stays
C34_Witness ==
  /\ tpl.handoffs = 1
  /\ tpl.opened = 2
  /\ tpl.marker = <<90>>
  /\ tpl.loaded
  /\ tpl.sourceTemplateId = <<1>>
  /\ state.jwt = StoredTemplates[1].activationKey

====
